---- MODULE Spec2Model ----
(***************************************************************************)
(* Catalog client of the landing site (src/lib/catalog.ts): fetchCatalog   *)
(* with its sessionStorage cache, the normalisation of upstream items, and *)
(* the callers that run it.                                                *)
(*                                                                         *)
(* JavaScript values are tagged records.  A string is a sequence of        *)
(* one-character strings, so that trimming, splitting and number parsing   *)
(* are computed character by character.  A finite number is m / 10^e with  *)
(* m an integer, kept normalised (e = 0 or m not divisible by 10), which   *)
(* is exact for the short decimals the model feeds in.  Cyrillic literals  *)
(* of the source are transliterated.                                       *)
(***************************************************************************)
EXTENDS Integers, Sequences, FiniteSets, TLC

VARIABLES now, store, storageMode, appsScriptUrl, calls, app, probe

vars == <<now, store, storageMode, appsScriptUrl, calls, app, probe>>

-----------------------------------------------------------------------------
(* JavaScript values *)

Undef == [t |-> "undef"]
Null == [t |-> "null"]
Bool(b) == [t |-> "bool", b |-> b]
Str(s) == [t |-> "str", s |-> s]
Arr(a) == [t |-> "arr", a |-> a]
Obj(f) == [t |-> "obj", f |-> f]

RECURSIVE Pow10(_)
Pow10(k) == IF k = 0 THEN 1 ELSE 10 * Pow10(k - 1)

RECURSIVE Norm(_, _)
Norm(m, e) ==
  IF e > 0 /\ m % 10 = 0 THEN Norm(m \div 10, e - 1)
  ELSE [t |-> "num", k |-> "fin", m |-> m, e |-> e]

Dec(m, e) == IF e < 0 THEN Norm(m * Pow10(0 - e), 0) ELSE Norm(m, e)
Num(n) == Dec(n, 0)
NaN == [t |-> "num", k |-> "nan", m |-> 0, e |-> 0]
PosInf == [t |-> "num", k |-> "inf", m |-> 1, e |-> 0]
NegInf == [t |-> "num", k |-> "inf", m |-> -1, e |-> 0]

IsFinite(v) == v.t = "num" /\ v.k = "fin"

(* property read o.k: undefined on primitives, arrays and missing keys *)
Get(o, k) == IF o.t = "obj" /\ k \in DOMAIN o.f THEN o.f[k] ELSE Undef

(* ToBoolean *)
Truthy(v) ==
  CASE v.t = "undef" -> FALSE
    [] v.t = "null" -> FALSE
    [] v.t = "bool" -> v.b
    [] v.t = "num" -> ~(v.k = "nan" \/ (v.k = "fin" /\ v.m = 0))
    [] v.t = "str" -> Len(v.s) > 0
    [] OTHER -> TRUE

(* a || b *)
Or(a, b) == IF Truthy(a) THEN a ELSE b

-----------------------------------------------------------------------------
(* Characters and strings *)

Digits == <<"0", "1", "2", "3", "4", "5", "6", "7", "8", "9">>
IsDigit(c) == \E i \in 1..10 : Digits[i] = c
DigitVal(c) == (CHOOSE i \in 1..10 : Digits[i] = c) - 1
IsSpace(c) == c \in {" ", "\t", "\n"}

SubStr(s, i, j) == IF j < i THEN <<>> ELSE SubSeq(s, i, j)

(* s.startsWith(p) from position i *)
StartsWithAt(s, i, p) ==
  /\ i + Len(p) - 1 <= Len(s)
  /\ \A j \in 1..Len(p) : s[i + j - 1] = p[j]

startsWith(s, p) == StartsWithAt(s, 1, p)
includes(s, c) == \E i \in 1..Len(s) : s[i] = c

(* index of the first c in s, 0 when there is none *)
indexOf(s, c) ==
  IF includes(s, c)
  THEN CHOOSE i \in 1..Len(s) : s[i] = c /\ \A j \in 1..(i - 1) : s[j] # c
  ELSE 0

(* s.replace(c, d) with string arguments: the first occurrence only *)
replace(s, c, d) ==
  LET i == indexOf(s, c) IN IF i = 0 THEN s ELSE [s EXCEPT ![i] = d]

RECURSIVE SkipSpace(_, _)
SkipSpace(s, i) ==
  IF i <= Len(s) /\ IsSpace(s[i]) THEN SkipSpace(s, i + 1) ELSE i

RECURSIVE SkipSpaceBack(_, _)
SkipSpaceBack(s, j) ==
  IF j >= 1 /\ IsSpace(s[j]) THEN SkipSpaceBack(s, j - 1) ELSE j

trim(s) == SubStr(s, SkipSpace(s, 1), SkipSpaceBack(s, Len(s)))

(* s.split(c): the pieces between the separators, empty pieces kept *)
RECURSIVE split(_, _)
split(s, c) ==
  LET i == indexOf(s, c)
  IN IF i = 0 THEN <<s>>
     ELSE <<SubStr(s, 1, i - 1)>> \o split(SubStr(s, i + 1, Len(s)), c)

RECURSIVE SelectNonEmpty(_)
SelectNonEmpty(ss) ==
  IF ss = <<>> THEN <<>>
  ELSE (IF Len(Head(ss)) > 0 THEN <<Head(ss)>> ELSE <<>>) \o SelectNonEmpty(Tail(ss))

RECURSIVE NatToDigits(_)
NatToDigits(n) ==
  IF n < 10 THEN <<Digits[n + 1]>>
  ELSE NatToDigits(n \div 10) \o <<Digits[(n % 10) + 1]>>

RECURSIVE PadLeft(_, _)
PadLeft(s, n) == IF Len(s) >= n THEN s ELSE PadLeft(<<"0">> \o s, n)

(* Number::toString for the plain decimal range (no exponent notation) *)
NumToString(v) ==
  CASE v.k = "nan" -> <<"N", "a", "N">>
    [] v.k = "inf" ->
         (IF v.m < 0 THEN <<"-">> ELSE <<>>) \o <<"I", "n", "f", "i", "n", "i", "t", "y">>
    [] OTHER ->
         LET a == IF v.m < 0 THEN 0 - v.m ELSE v.m
             p == Pow10(v.e)
         IN (IF v.m < 0 THEN <<"-">> ELSE <<>>)
            \o NatToDigits(a \div p)
            \o (IF v.e = 0 THEN <<>> ELSE <<".">> \o PadLeft(NatToDigits(a % p), v.e))

RECURSIVE Join(_)
RECURSIVE String(_)
(* String(v) *)
String(v) ==
  CASE v.t = "undef" -> <<"u", "n", "d", "e", "f", "i", "n", "e", "d">>
    [] v.t = "null" -> <<"n", "u", "l", "l">>
    [] v.t = "bool" ->
         IF v.b THEN <<"t", "r", "u", "e">> ELSE <<"f", "a", "l", "s", "e">>
    [] v.t = "num" -> NumToString(v)
    [] v.t = "str" -> v.s
    [] v.t = "arr" -> Join(v.a)
    [] OTHER ->
         <<"[", "o", "b", "j", "e", "c", "t", " ", "O", "b", "j", "e", "c", "t", "]">>

(* Array.prototype.join(): null and undefined elements give the empty string *)
Join(a) ==
  IF a = <<>> THEN <<>>
  ELSE (IF Head(a).t \in {"undef", "null"} THEN <<>> ELSE String(Head(a)))
       \o (IF Len(a) > 1 THEN <<",">> \o Join(Tail(a)) ELSE <<>>)

-----------------------------------------------------------------------------
(* Number parsing *)

RECURSIVE DigitRun(_, _)
(* number of consecutive digits of s from position i *)
DigitRun(s, i) ==
  IF i <= Len(s) /\ IsDigit(s[i]) THEN 1 + DigitRun(s, i + 1) ELSE 0

RECURSIVE DigitsToNat(_, _, _)
(* the value of the n digits of s that end at position j *)
DigitsToNat(s, j, n) ==
  IF n = 0 THEN 0 ELSE 10 * DigitsToNat(s, j - 1, n - 1) + DigitVal(s[j])

(* The longest prefix of s from position i that is a StrDecimalLiteral:     *)
(* [val |-> its value, or NaN when there is none, end |-> the position     *)
(* after it].  The scan goes sign, digits, fraction, exponent.             *)
ScanExponent(s, m, n2, pE, pX) ==
  LET n3 == DigitRun(s, pX)
      x == DigitsToNat(s, pX + n3 - 1, n3)
  IN IF n3 = 0 THEN [val |-> Dec(m, n2), end |-> pE]
     ELSE [val |-> Dec(m, IF s[pE + 1] = "-" THEN n2 + x ELSE n2 - x),
           end |-> pX + n3]

ScanAfterMantissa(s, m, n2, pE) ==
  IF pE <= Len(s) /\ s[pE] \in {"e", "E"}
  THEN ScanExponent(s, m, n2, pE,
         IF pE + 1 <= Len(s) /\ s[pE + 1] \in {"+", "-"} THEN pE + 2 ELSE pE + 1)
  ELSE [val |-> Dec(m, n2), end |-> pE]

ScanFraction(s, i, sign, i1, n1, dot, n2) ==
  IF n1 + n2 = 0 THEN [val |-> NaN, end |-> i]
  ELSE ScanAfterMantissa(s,
         sign * (DigitsToNat(s, i1 + n1 - 1, n1) * Pow10(n2)
                 + DigitsToNat(s, i1 + n1 + n2, n2)),
         n2, i1 + n1 + dot + n2)

ScanDigits(s, i, sign, i1, n1) ==
  IF i1 + n1 <= Len(s) /\ s[i1 + n1] = "."
  THEN ScanFraction(s, i, sign, i1, n1, 1, DigitRun(s, i1 + n1 + 1))
  ELSE ScanFraction(s, i, sign, i1, n1, 0, 0)

ScanSigned(s, i, sign, i1) ==
  IF StartsWithAt(s, i1, <<"I", "n", "f", "i", "n", "i", "t", "y">>)
  THEN [val |-> IF sign < 0 THEN NegInf ELSE PosInf, end |-> i1 + 8]
  ELSE ScanDigits(s, i, sign, i1, DigitRun(s, i1))

ScanDecimal(s, i) ==
  IF i <= Len(s) /\ s[i] = "-" THEN ScanSigned(s, i, -1, i + 1)
  ELSE IF i <= Len(s) /\ s[i] = "+" THEN ScanSigned(s, i, 1, i + 1)
  ELSE ScanSigned(s, i, 1, i)

(* parseFloat(s): leading white space skipped, trailing text ignored *)
parseFloat(s) == ScanDecimal(s, SkipSpace(s, 1)).val

(* StringToNumber: the whole trimmed string must be a decimal literal; "" is 0 *)
StringToNumber(s) ==
  LET u == trim(s)
      r == ScanDecimal(u, 1)
  IN IF u = <<>> THEN Num(0)
     ELSE IF r.end = Len(u) + 1 THEN r.val ELSE NaN

(* ToNumber(v), the coercion of the operands of a subtraction *)
ToNumber(v) ==
  CASE v.t = "undef" -> NaN
    [] v.t = "null" -> Num(0)
    [] v.t = "bool" -> IF v.b THEN Num(1) ELSE Num(0)
    [] v.t = "num" -> v
    [] v.t = "str" -> StringToNumber(v.s)
    [] v.t = "arr" -> StringToNumber(String(v))
    [] OTHER -> NaN

(* a - b on numbers *)
NumSub(a, b) ==
  IF a.k = "nan" \/ b.k = "nan" THEN NaN
  ELSE IF a.k = "inf" /\ b.k = "inf" THEN (IF a.m = b.m THEN NaN ELSE a)
  ELSE IF a.k = "inf" THEN a
  ELSE IF b.k = "inf" THEN (IF b.m > 0 THEN NegInf ELSE PosInf)
  ELSE LET e == IF a.e > b.e THEN a.e ELSE b.e
       IN Dec(a.m * Pow10(e - a.e) - b.m * Pow10(e - b.e), e)

(* a > b on numbers: false as soon as one side is NaN *)
NumGt(a, b) ==
  IF a.k = "nan" \/ b.k = "nan" THEN FALSE
  ELSE IF a.k = "inf" THEN a.m > 0 /\ ~(b.k = "inf" /\ b.m > 0)
  ELSE IF b.k = "inf" THEN b.m < 0
  ELSE LET e == IF a.e > b.e THEN a.e ELSE b.e
       IN a.m * Pow10(e - a.e) > b.m * Pow10(e - b.e)

-----------------------------------------------------------------------------
(* JSON and the clock *)

RECURSIVE Jsonify(_)
RECURSIVE JsonifyAll(_)
(* JSON.parse(JSON.stringify(v)): a non-finite number becomes null, an       *)
(* undefined property is left out, an undefined array element becomes null  *)
Jsonify(v) ==
  CASE v.t = "num" -> IF v.k = "fin" THEN v ELSE Null
    [] v.t = "arr" -> Arr(JsonifyAll(v.a))
    [] v.t = "obj" ->
         Obj([k \in {x \in DOMAIN v.f : v.f[x].t # "undef"} |-> Jsonify(v.f[k])])
    [] v.t = "undef" -> Null
    [] OTHER -> v

JsonifyAll(a) ==
  IF a = <<>> THEN <<>> ELSE <<Jsonify(Head(a))>> \o JsonifyAll(Tail(a))

(* What sessionStorage holds under CACHE_KEY: no item, or a text.  A text   *)
(* that JSON.parse accepts is represented by the value it parses to.        *)
NoItem == [k |-> "none"]
EmptyText == [k |-> "empty"]
Garbage == [k |-> "garbage"]
JsonText(v) == [k |-> "json", v |-> v]

JSONstringify(v) == JsonText(Jsonify(v))

(* new Date(ms).toISOString(), for an instant of the first day of the epoch *)
toISOString(ms) ==
  <<"1", "9", "7", "0", "-", "0", "1", "-", "0", "1", "T">>
  \o PadLeft(NatToDigits(ms \div 3600000), 2) \o <<":">>
  \o PadLeft(NatToDigits((ms \div 60000) % 60), 2) \o <<":">>
  \o PadLeft(NatToDigits((ms \div 1000) % 60), 2) \o <<".">>
  \o PadLeft(NatToDigits(ms % 1000), 3) \o <<"Z">>

-----------------------------------------------------------------------------
(* src/lib/catalog.ts *)

CACHE_TTL_MS == 5 * 60 * 1000

(* import.meta.env.BASE_URL is the base of vite.config.ts *)
BASE_URL == <<"/", "a", "g", "r", "o", "s", "n", "a", "b", "-", "v", "1", ".", "0", "/">>

PLACEHOLDER_IMAGE ==
  BASE_URL \o <<"p", "l", "a", "c", "e", "h", "o", "l", "d", "e", "r", ".", "w", "e", "b", "p">>

UpperCase == <<"A", "B", "C", "D", "E", "F", "G", "H", "I", "J", "K", "L", "M",
               "N", "O", "P", "Q", "R", "S", "T", "U", "V", "W", "X", "Y", "Z">>
LowerCase == <<"a", "b", "c", "d", "e", "f", "g", "h", "i", "j", "k", "l", "m",
               "n", "o", "p", "q", "r", "s", "t", "u", "v", "w", "x", "y", "z">>
IsAlpha(c) == \E i \in 1..26 : UpperCase[i] = c \/ LowerCase[i] = c
toLowerChar(c) ==
  IF \E i \in 1..26 : UpperCase[i] = c
  THEN LowerCase[CHOOSE i \in 1..26 : UpperCase[i] = c]
  ELSE c
toLowerCase(s) == [i \in 1..Len(s) |-> toLowerChar(s[i])]

RECURSIVE SkipSlashes(_, _)
SkipSlashes(s, i) ==
  IF i <= Len(s) /\ s[i] \in {"/", "\\"} THEN SkipSlashes(s, i + 1) ELSE i

(* new URL(url) without a base: [ok |-> it parses, protocol |-> scheme and  *)
(* colon, lower-cased].  The input needs a scheme (a letter, then letters,  *)
(* digits, + - .) before its first colon; an http(s) URL needs, after the   *)
(* slashes, a host that is not empty and holds no white space or < > ^ |,   *)
(* and a port of digits.                                                    *)
URLfailure == [ok |-> FALSE, protocol |-> <<>>]

(* the part of rest before its first / \ ? # *)
Authority(rest) ==
  LET stops == {i \in 1..Len(rest) : rest[i] \in {"/", "\\", "?", "#"}}
  IN IF stops = {} THEN rest
     ELSE SubStr(rest, 1, (CHOOSE i \in stops : \A j \in stops : i <= j) - 1)

(* the part of the authority after its last @ *)
HostPort(auth) ==
  LET ats == {i \in 1..Len(auth) : auth[i] = "@"}
  IN IF ats = {} THEN auth
     ELSE SubStr(auth, (CHOOSE i \in ats : \A j \in ats : j <= i) + 1, Len(auth))

HostOk(host, port) ==
  /\ Len(host) > 0
  /\ \A i \in 1..Len(host) : host[i] \notin {" ", "<", ">", "^", "|"}
  /\ \A i \in 1..Len(port) : IsDigit(port[i])

HostPortOk(hp, c) ==
  IF c = 0 THEN HostOk(hp, <<>>)
  ELSE HostOk(SubStr(hp, 1, c - 1), SubStr(hp, c + 1, Len(hp)))

URLafterScheme(scheme, hp) ==
  IF scheme \in {<<"h", "t", "t", "p">>, <<"h", "t", "t", "p", "s">>}
     /\ ~HostPortOk(hp, indexOf(hp, ":"))
  THEN URLfailure
  ELSE [ok |-> TRUE, protocol |-> scheme \o <<":">>]

URLscheme(u, c) ==
  IF /\ c > 1
     /\ IsAlpha(u[1])
     /\ \A i \in 2..(c - 1) : IsAlpha(u[i]) \/ IsDigit(u[i]) \/ u[i] \in {"+", "-", "."}
  THEN URLafterScheme(toLowerCase(SubStr(u, 1, c - 1)),
                      HostPort(Authority(SubStr(u, SkipSlashes(u, c + 1), Len(u)))))
  ELSE URLfailure

URLtrimmed(u) == URLscheme(u, indexOf(u, ":"))

URLparse(url) == URLtrimmed(trim(url))

(* isValidImageUrl letting through every string that parses as a URL *)
isValidImageUrl_anyParsed(url) ==
  IF Len(url) = 0 THEN FALSE
  ELSE URLparse(url).ok \/ ~includes(url, ":") \/ startsWith(url, <<"/">>)

(* isValidImageUrl without the test `if (!url) return false` *)
isValidImageUrl_noEmptyCheck(url) ==
  LET parsed == URLparse(url)
  IN IF parsed.ok
     THEN parsed.protocol \in {<<"h", "t", "t", "p", ":">>,
                               <<"h", "t", "t", "p", "s", ":">>,
                               <<"d", "a", "t", "a", ":">>}
     ELSE ~includes(url, ":") \/ startsWith(url, <<"/">>)

isValidImageUrl(url) ==
  IF Len(url) = 0 THEN FALSE
  ELSE LET parsed == URLparse(url)
       IN IF parsed.ok
          THEN parsed.protocol \in {<<"h", "t", "t", "p", ":">>,
                                    <<"h", "t", "t", "p", "s", ":">>,
                                    <<"d", "a", "t", "a", ":">>}
          ELSE ~includes(url, ":") \/ startsWith(url, <<"/">>)

(* isInStock with the test `stock >= 0` *)
isInStock_ge(product) == ~NumGt(Num(0), Get(product, "stock"))

isInStock(product) == NumGt(Get(product, "stock"), Num(0))

getCtaText(product) ==
  IF isInStock(product)
  THEN <<"P", "o", "l", "u", "c", "h", "i", "t", "'", " ", "p", "r", "a", "j", "s">>
  ELSE <<"U", "t", "o", "c", "h", "n", "i", "t", "'", " ", "v", " ",
         "T", "e", "l", "e", "g", "r", "a", "m">>

(* src/components/ProductCard.tsx: what the card renders of the stock: the *)
(* badge of a product that is not in stock, and the label of its button    *)
ProductCard(product) ==
  [badge |-> ~isInStock(product), ctaText |-> getCtaText(product)]

(* parseNum without the replacement of the decimal comma *)
parseNum_noComma(val) == Or(parseFloat(String(val)), Num(0))

parseNum(val) == Or(parseFloat(replace(String(val), ",", ".")), Num(0))

RECURSIVE TrimAll(_)
TrimAll(ss) == IF ss = <<>> THEN <<>> ELSE <<trim(Head(ss))>> \o TrimAll(Tail(ss))

RECURSIVE StrAll(_)
StrAll(ss) == IF ss = <<>> THEN <<>> ELSE <<Str(Head(ss))>> \o StrAll(Tail(ss))

(* normalizeProduct(raw) for a raw that is not null: reading a property of  *)
(* null throws, which Throws(raw) tells                                     *)
Throws(raw) == raw.t \in {"null", "undef"}

normalizeProduct(raw) ==
  LET photoUrlRaw == trim(String(Or(Get(raw, "photoUrl"), Str(<<>>))))
      photoUrl == IF isValidImageUrl(photoUrlRaw) THEN photoUrlRaw ELSE PLACEHOLDER_IMAGE
      tagsRaw == String(Or(Get(raw, "tags"), Str(<<>>)))
  IN Obj([sku |-> Str(String(Or(Get(raw, "sku"), Str(<<>>)))),
          name |-> Str(String(Or(Get(raw, "name"), Str(<<>>)))),
          descriptionShort |-> Str(String(Or(Get(raw, "descriptionShort"), Str(<<>>)))),
          descriptionFull |-> Str(String(Or(Get(raw, "descriptionFull"), Str(<<>>)))),
          priceRub |-> parseNum(Get(raw, "priceRub")),
          stock |-> parseNum(Get(raw, "stock")),
          photoUrl |-> Or(Str(photoUrl), Str(PLACEHOLDER_IMAGE)),
          tags |-> Arr(StrAll(SelectNonEmpty(TrimAll(split(tagsRaw, ",")))))])

-----------------------------------------------------------------------------
(* The cache in sessionStorage.  storageMode is how the storage behaves    *)
(* for this page: "ok"; "quota", where setItem throws; "denied", where     *)
(* every access throws and nothing is ever stored.                         *)

(* getCache with the expiry test `age >= CACHE_TTL_MS` *)
getCache_ge(st, mode, t) ==
  IF mode = "denied" THEN [entry |-> Null, store |-> st]
  ELSE IF st.k # "json" THEN [entry |-> Null, store |-> st]
  ELSE IF st.v.t = "null" THEN [entry |-> Null, store |-> st]
  ELSE IF NumGt(NumSub(Num(t), ToNumber(Get(st.v, "cachedAt"))), Num(CACHE_TTL_MS - 1))
  THEN [entry |-> Null, store |-> NoItem]
  ELSE [entry |-> st.v, store |-> st]

(* getCache without the expiry test *)
getCache_keep(st, mode, t) ==
  IF mode = "denied" THEN [entry |-> Null, store |-> st]
  ELSE IF st.k # "json" THEN [entry |-> Null, store |-> st]
  ELSE IF st.v.t = "null" THEN [entry |-> Null, store |-> st]
  ELSE [entry |-> st.v, store |-> st]

getCache(st, mode, t) ==
  IF mode = "denied" THEN [entry |-> Null, store |-> st]
  ELSE IF st.k \in {"none", "empty"} THEN [entry |-> Null, store |-> st]
  ELSE IF st.k = "garbage" THEN [entry |-> Null, store |-> st]
  ELSE IF st.v.t = "null" THEN [entry |-> Null, store |-> st]
  ELSE LET entry == st.v
           age == NumSub(Num(t), ToNumber(Get(entry, "cachedAt")))
       IN IF NumGt(age, Num(CACHE_TTL_MS))
          THEN [entry |-> Null, store |-> NoItem]
          ELSE [entry |-> entry, store |-> st]

(* setCache writing only where the item holds nothing *)
setCache_keepFirst(st, mode, data, t) ==
  IF mode = "ok" /\ st = NoItem
  THEN JSONstringify(Obj([data |-> data, cachedAt |-> Num(t)]))
  ELSE st

setCache(st, mode, data, t) ==
  IF mode = "ok"
  THEN JSONstringify(Obj([data |-> data, cachedAt |-> Num(t)]))
  ELSE st

(* setCache with no try/catch around setItem *)
setCacheThrows_uncaught(mode) == mode # "ok"

(* setCache(data) throws into its caller: never, its catch swallows what   *)
(* setItem throws                                                          *)
setCacheThrows(mode) == FALSE

-----------------------------------------------------------------------------
(* fetchCatalog *)

NOT_CONFIGURED == <<"K", "a", "t", "a", "l", "o", "g", " ", "n", "e", " ",
                    "n", "a", "s", "t", "r", "o", "e", "n">>
LOAD_FAILED == <<"N", "e", " ", "u", "d", "a", "l", "o", "s", "'", " ",
                 "z", "a", "g", "r", "u", "z", "i", "t", "'", " ",
                 "k", "a", "t", "a", "l", "o", "g">>

(* the value returned when the endpoint is not configured *)
configError(t) ==
  Obj([generated_at |-> Str(toISOString(t)),
       error |-> Str(NOT_CONFIGURED),
       items |-> Arr(<<>>)])

(* the catch block with a timestamp taken once, when the module loaded *)
loadError_stale(t) ==
  Obj([generated_at |-> Str(toISOString(0)),
       error |-> Str(LOAD_FAILED),
       items |-> Arr(<<>>)])

(* the value returned by the catch block *)
loadError(t) ==
  Obj([generated_at |-> Str(toISOString(t)),
       error |-> Str(LOAD_FAILED),
       items |-> Arr(<<>>)])

RECURSIVE mapNormalize(_)
mapNormalize(a) ==
  IF a = <<>> THEN <<>> ELSE <<normalizeProduct(Head(a))>> \o mapNormalize(Tail(a))

(* the try block storing the upstream error it returns *)
onBody_cacheError(rawData, t) ==
  IF Throws(rawData) THEN [result |-> loadError(t), cache |-> FALSE]
  ELSE IF Truthy(Get(rawData, "error"))
  THEN [result |->
          Obj([generated_at |-> Or(Get(rawData, "generated_at"), Str(toISOString(t))),
               error |-> Get(rawData, "error"),
               items |-> Arr(<<>>)]),
        cache |-> TRUE]
  ELSE LET raws == Get(rawData, "items")
       IN IF raws.t = "arr" /\ \E i \in 1..Len(raws.a) : Throws(raws.a[i])
          THEN [result |-> loadError(t), cache |-> FALSE]
          ELSE [result |->
                  Obj([generated_at |->
                         Or(Get(rawData, "generated_at"), Str(toISOString(t))),
                       items |->
                         Arr(IF raws.t = "arr" THEN mapNormalize(raws.a) ELSE <<>>)]),
                cache |-> TRUE]

(* The part of the try block after `await response.json()`, with what it   *)
(* throws caught: [result |-> the value returned, cache |-> setCache(result) *)
(* was called on the way].                                                  *)
onBody(rawData, t) ==
  IF Throws(rawData) THEN [result |-> loadError(t), cache |-> FALSE]
  ELSE IF Truthy(Get(rawData, "error"))
  THEN [result |->
          Obj([generated_at |-> Or(Get(rawData, "generated_at"), Str(toISOString(t))),
               error |-> Get(rawData, "error"),
               items |-> Arr(<<>>)]),
        cache |-> FALSE]
  ELSE LET raws == Get(rawData, "items")
       IN IF raws.t = "arr" /\ \E i \in 1..Len(raws.a) : Throws(raws.a[i])
          THEN [result |-> loadError(t), cache |-> FALSE]
          ELSE [result |->
                  Obj([generated_at |->
                         Or(Get(rawData, "generated_at"), Str(toISOString(t))),
                       items |->
                         Arr(IF raws.t = "arr" THEN mapNormalize(raws.a) ELSE <<>>)]),
                cache |-> TRUE]

-----------------------------------------------------------------------------
(* Inputs *)

Callers == {"a", "b"}

(* the readings of the clock: either side of one TTL after 0 and after 1 *)
Instants == {0, 1, CACHE_TTL_MS, CACHE_TTL_MS + 1}

S_G == <<"2", "0", "2", "6">>
S_A1 == <<"A", "1">>
S_B2 == <<"B", "2">>
SHEET_NOT_FOUND == <<"S", "h", "e", "e", "t", " ", "n", "o", "t", " ",
                     "f", "o", "u", "n", "d">>

itemA1 == Obj([sku |-> Str(S_A1), priceRub |-> Str(<<"1", "0", ",", "5">>),
               stock |-> Str(<<"3">>)])
itemGhost == Obj([sku |-> Str(<<>>), name |-> Str(<<"g", "h", "o", "s", "t">>)])
itemB2 == Obj([sku |-> Str(S_B2), name |-> Str(<<"r", "e", "a", "l">>)])
itemNeg == Obj([sku |-> Str(<<"N", "1">>), priceRub |-> Str(<<"-", "5">>),
                stock |-> Num(-2)])
itemInf == Obj([sku |-> Str(<<"I", "1">>),
                priceRub |-> Str(<<"I", "n", "f", "i", "n", "i", "t", "y">>)])
itemB2copy == Obj([sku |-> Str(S_B2), name |-> Str(<<"c", "o", "p", "y">>)])

(* the JSON bodies the endpoint answers with where callers run side by side *)
BodiesCore ==
  { Obj([items |-> Arr(<<itemA1>>)]),
    Obj([generated_at |-> Str(S_G), items |-> Arr(<<itemGhost, itemB2>>)]),
    Obj([generated_at |-> Str(S_G), items |-> Arr(<<itemInf>>)]),
    Obj([error |-> Str(SHEET_NOT_FOUND), items |-> Arr(<<>>)]) }

(* every JSON body the model feeds in *)
Bodies ==
  BodiesCore \cup
  { Null,
    Num(5),
    Obj([generated_at |-> Str(S_G), items |-> Arr(<<itemNeg>>)]),
    Obj([generated_at |-> Num(7), items |-> Arr(<<>>)]),
    Obj([items |-> Arr(<<Null, itemB2>>)]),
    Obj([generated_at |-> Str(S_G), items |-> Arr(<<itemB2, itemB2copy>>)]),
    Obj([generated_at |-> Str(S_G)]),
    Obj([generated_at |-> Str(<<>>), items |-> Str(S_B2)]),
    Obj([error |-> Str(SHEET_NOT_FOUND), items |-> Arr(<<itemB2>>)]),
    Obj([error |-> Str(<<>>), generated_at |-> Str(S_G), items |-> Arr(<<itemB2>>)]) }

(* the entry a successful call of an earlier page of the session wrote at 0 *)
entry0 ==
  Obj([data |-> Obj([generated_at |-> Str(S_G),
                     items |-> Arr(<<normalizeProduct(itemB2)>>)]),
       cachedAt |-> Num(0)])

(* what this program can have left under CACHE_KEY *)
StoreWritten == {NoItem, JsonText(entry0)}

(* any content of the item, whoever wrote it: the last is an entry stamped *)
(* by a clock that ran ahead of this one                                   *)
StoreAny ==
  StoreWritten \cup
  {EmptyText, Garbage, JsonText(Null), JsonText(Obj(<<>>)),
   JsonText([entry0 EXCEPT !.f.cachedAt = Num(2 * CACHE_TTL_MS)])}

-----------------------------------------------------------------------------
(* src/App.tsx: the state of the component before its effect has run.      *)
(* effect tells where the effect of the current reloadKey stands: "due",   *)
(* "pending" (fetchCatalog called, promise not settled), "then" (the then  *)
(* handler has run, finally has not), "settled".                           *)
AppInit ==
  [showAllProducts |-> FALSE, products |-> Arr(<<>>), loading |-> TRUE,
   error |-> Null, reloadKey |-> 0, effect |-> "due"]

(* the latest application of a function of catalog.ts on its own *)
NoProbe == [fn |-> "none", arg |-> Undef, ret |-> Undef]

-----------------------------------------------------------------------------
(* The state.  calls[p] is the latest call of fetchCatalog by caller p:    *)
(* where it stands (pc), what it returned (result), and what was observed  *)
(* of it: the clock when it was made and when it returned (t0, tDone), the *)
(* storage item before and after its cache read (seen, kept) and before    *)
(* and after the step that returned (pre, post), its network requests      *)
(* (reqs), its calls of setItem (setItems), how its request ended (net)    *)
(* and the body it received (body).                                        *)

Idle == [pc |-> "idle", result |-> Undef, t0 |-> 0, tDone |-> 0,
         seen |-> NoItem, kept |-> NoItem, pre |-> NoItem, post |-> NoItem,
         reqs |-> 0, setItems |-> 0, net |-> "none", body |-> NoItem]

InitWith(stores) ==
  /\ now = 0
  /\ storageMode \in {"ok", "quota", "denied"}
  /\ store \in IF storageMode = "denied" THEN {NoItem} ELSE stores
  /\ appsScriptUrl \in BOOLEAN
  /\ calls = [p \in Callers |-> Idle]
  /\ app = AppInit
  /\ probe = NoProbe

Init == InitWith(StoreWritten)

Returned(c, t, result, pre, post, writes) ==
  [c EXCEPT !.pc = "done", !.result = result, !.tDone = t,
            !.pre = pre, !.post = post, !.setItems = writes]

(* fetchCatalog without the test of appsScriptUrl *)
fetchCatalog_noConfigCheck(p) ==
  /\ calls[p].pc \in {"idle", "done"}
  /\ LET g == getCache(store, storageMode, now)
         c == [Idle EXCEPT !.pc = "awaitFetch", !.t0 = now, !.tDone = now,
                           !.seen = store, !.kept = g.store,
                           !.pre = store, !.post = g.store]
     IN /\ store' = g.store
        /\ calls' = [calls EXCEPT ![p] =
             IF Truthy(g.entry)
             THEN [c EXCEPT !.pc = "done", !.result = Get(g.entry, "data")]
             ELSE [c EXCEPT !.reqs = 1, !.net = "pending"]]
  /\ UNCHANGED <<app, probe, now, storageMode, appsScriptUrl>>

(* fetchCatalog() up to its first await, or to its return, whoever calls *)
fetchCatalogCall(p) ==
  /\ calls[p].pc \in {"idle", "done"}
  /\ LET g == getCache(store, storageMode, now)
         c == [Idle EXCEPT !.pc = "awaitFetch", !.t0 = now, !.tDone = now,
                           !.seen = store, !.kept = g.store,
                           !.pre = store, !.post = g.store]
     IN /\ store' = g.store
        /\ calls' = [calls EXCEPT ![p] =
             IF Truthy(g.entry)
             THEN [c EXCEPT !.pc = "done", !.result = Get(g.entry, "data")]
             ELSE IF ~appsScriptUrl
             THEN [c EXCEPT !.pc = "done", !.result = configError(now)]
             ELSE [c EXCEPT !.reqs = 1, !.net = "pending"]]
  /\ UNCHANGED <<probe, now, storageMode, appsScriptUrl>>

(* fetchCatalog() called by p *)
fetchCatalog(p) == fetchCatalogCall(p) /\ UNCHANGED app

(* the catch block storing what it returns *)
FetchRejects_caching(p) ==
  /\ calls[p].pc = "awaitFetch"
  /\ store' = setCache(store, storageMode, loadError(now), now)
  /\ calls' = [calls EXCEPT ![p] =
       Returned([@ EXCEPT !.net = "rejected"], now, loadError(now), store, store', 1)]
  /\ UNCHANGED <<app, probe, now, storageMode, appsScriptUrl>>

(* `await fetch(...)` rejects: the catch block returns *)
FetchRejects(p) ==
  /\ calls[p].pc = "awaitFetch"
  /\ calls' = [calls EXCEPT ![p] =
       Returned([@ EXCEPT !.net = "rejected"], now, loadError(now), store, store, 0)]
  /\ UNCHANGED <<app, probe, now, store, storageMode, appsScriptUrl>>

(* a response that is not ok answered by a second request *)
FetchResponds_retry(p, ok) ==
  /\ calls[p].pc = "awaitFetch"
  /\ calls' = [calls EXCEPT ![p] =
       IF ok THEN [@ EXCEPT !.pc = "awaitJson", !.net = "ok"]
       ELSE [@ EXCEPT !.reqs = 2]]
  /\ UNCHANGED <<app, probe, now, store, storageMode, appsScriptUrl>>

(* `await fetch(...)` resolves to a response: !response.ok throws *)
FetchResponds(p, ok) ==
  /\ calls[p].pc = "awaitFetch"
  /\ calls' = [calls EXCEPT ![p] =
       IF ok THEN [@ EXCEPT !.pc = "awaitJson", !.net = "ok"]
       ELSE Returned([@ EXCEPT !.net = "status"], now, loadError(now), store, store, 0)]
  /\ UNCHANGED <<app, probe, now, store, storageMode, appsScriptUrl>>

(* a body that is not JSON answered by going back to the request *)
JsonRejects_again(p) ==
  /\ calls[p].pc = "awaitJson"
  /\ calls' = [calls EXCEPT ![p] = [@ EXCEPT !.pc = "awaitFetch", !.net = "pending"]]
  /\ UNCHANGED <<app, probe, now, store, storageMode, appsScriptUrl>>

(* `await response.json()` rejects: the body is not JSON *)
JsonRejects(p) ==
  /\ calls[p].pc = "awaitJson"
  /\ calls' = [calls EXCEPT ![p] =
       Returned([@ EXCEPT !.body = Garbage], now, loadError(now), store, store, 0)]
  /\ UNCHANGED <<app, probe, now, store, storageMode, appsScriptUrl>>

(* `await response.json()` resolves to rawData: the rest of the try block *)
JsonResolves(p, rawData) ==
  /\ calls[p].pc = "awaitJson"
  /\ LET r == onBody(rawData, now)
         st == IF r.cache THEN setCache(store, storageMode, r.result, now) ELSE store
         result == IF r.cache /\ setCacheThrows(storageMode)
                   THEN loadError(now) ELSE r.result
     IN /\ store' = st
        /\ calls' = [calls EXCEPT ![p] =
             Returned([@ EXCEPT !.body = JsonText(rawData)], now, result, store, st,
                      IF r.cache THEN 1 ELSE 0)]
  /\ UNCHANGED <<app, probe, now, storageMode, appsScriptUrl>>

(* time passes *)
Tick(t) ==
  /\ t > now
  /\ now' = t
  /\ UNCHANGED <<app, probe, store, storageMode, appsScriptUrl, calls>>

(* two callers side by side, the storage as this program leaves it *)
Next ==
  \/ \E p \in Callers : fetchCatalog(p)
  \/ \E p \in Callers : FetchRejects(p)
  \/ \E p \in Callers, ok \in BOOLEAN : FetchResponds(p, ok)
  \/ \E p \in Callers : JsonRejects(p)
  \/ \E p \in Callers, rawData \in BodiesCore : JsonResolves(p, rawData)
  \/ \E t \in Instants : Tick(t)

Spec == Init /\ [][Next]_vars

(* one caller, any content of the storage item, every body *)
InitAny == InitWith(StoreAny)

NextOne ==
  \/ fetchCatalog("a")
  \/ FetchRejects("a")
  \/ \E ok \in BOOLEAN : FetchResponds("a", ok)
  \/ JsonRejects("a")
  \/ \E rawData \in Bodies : JsonResolves("a", rawData)
  \/ \E t \in Instants : Tick(t)

SpecOne == InitAny /\ [][NextOne]_vars

(* the same, where the request and the reading of its body always settle:  *)
(* fetch and response.json() resolve or reject, they do not hang           *)
Settles ==
  /\ WF_vars(FetchRejects("a") \/ \E ok \in BOOLEAN : FetchResponds("a", ok))
  /\ WF_vars(JsonRejects("a") \/ \E rawData \in Bodies : JsonResolves("a", rawData))

SpecLive == SpecOne /\ Settles

-----------------------------------------------------------------------------
(* google-apps-script/Code.gs: doGet.  A sheet is null when it does not     *)
(* exist, else the list of its rows, each the list of its cells; the first  *)
(* row holds the headers.  Cyrillic header names and the word for yes are   *)
(* transliterated.                                                          *)

COLUMNS ==
  [SKU |-> <<"S", "K", "U">>, NAME |-> <<"N", "a", "i", "m", "e", "n", "o", "v", "a", "n", "i", "e">>,
   DESC_SHORT |-> <<"O", "p", "i", "s", "a", "n", "i", "e", "_", "k", "r", "a", "t", "k", "o">>, DESC_FULL |-> <<"O", "p", "i", "s", "a", "n", "i", "e", "_", "p", "o", "l", "n", "o", "e">>,
   PRICE |-> <<"C", "e", "n", "a", "_", "r", "u", "b">>, STOCK |-> <<"O", "s", "t", "a", "t", "o", "k", "_", "r", "a", "s", "c", "h", "e", "t">>,
   PHOTO |-> <<"F", "o", "t", "o", "_", "U", "R", "L">>, ACTIVE |-> <<"A", "k", "t", "i", "v", "e", "n">>, TAGS |-> <<"T", "e", "g", "i">>]


(* colMap[name]: the index of the last header equal to name, 0 for undefined *)
colMap(headers, name) ==
  LET is == {i \in 1..Len(headers) : headers[i] = Str(name)}
  IN IF is = {} THEN 0 ELSE CHOOSE i \in is : \A j \in is : j <= i

(* row[colMap[name]] *)
Cell(row, headers, name) ==
  LET c == colMap(headers, name)
  IN IF c = 0 \/ c > Len(row) THEN Undef ELSE row[c]

(* the sku of a row: String(row[colMap[SKU]] || '').trim() *)
rowSku(row, headers) == trim(String(Or(Cell(row, headers, COLUMNS.SKU), Str(<<>>))))

(* isActive taken as the truthiness of the cell *)
isActive_truthy(activeRaw) == Truthy(activeRaw)

isActive(activeRaw) ==
  LET activeStr == trim(toLowerCase(String(activeRaw)))
  IN \/ activeRaw = Bool(TRUE)
     \/ activeStr = <<"t", "r", "u", "e">>
     \/ activeStr = <<"d", "a">>
     \/ activeStr = <<"y", "e", "s">>
     \/ activeStr = <<"1">>

(* the object doGet pushes for a row *)
rowItem(row, headers) ==
  Obj([sku |-> Str(rowSku(row, headers)),
       name |-> Str(String(Or(Cell(row, headers, COLUMNS.NAME), Str(<<>>)))),
       descriptionShort |->
         Str(String(Or(Cell(row, headers, COLUMNS.DESC_SHORT), Str(<<>>)))),
       descriptionFull |->
         Str(String(Or(Cell(row, headers, COLUMNS.DESC_FULL), Str(<<>>)))),
       priceRub |-> parseNum(Cell(row, headers, COLUMNS.PRICE)),
       stock |-> parseNum(Cell(row, headers, COLUMNS.STOCK)),
       photoUrl |-> Str(String(Or(Cell(row, headers, COLUMNS.PHOTO), Str(<<>>)))),
       tags |-> Arr(StrAll(SelectNonEmpty(TrimAll(
                  split(String(Or(Cell(row, headers, COLUMNS.TAGS), Str(<<>>))), ",")))))])

(* the loop over the data rows *)
RECURSIVE rowItems(_, _)
rowItems(rows, headers) ==
  IF rows = <<>> THEN <<>>
  ELSE IF rowSku(Head(rows), headers) = <<>> THEN rowItems(Tail(rows), headers)
  ELSE IF ~isActive(Cell(Head(rows), headers, COLUMNS.ACTIVE))
  THEN rowItems(Tail(rows), headers)
  ELSE <<rowItem(Head(rows), headers)>> \o rowItems(Tail(rows), headers)

(* the payload of doGet for a sheet at time t *)
doGet(sheet, t) ==
  IF ~Truthy(sheet) THEN Obj([error |-> Str(SHEET_NOT_FOUND), items |-> Arr(<<>>)])
  ELSE LET headers == Head(sheet.a).a
       IN IF colMap(headers, COLUMNS.SKU) = 0 \/ colMap(headers, COLUMNS.ACTIVE) = 0
          THEN Obj([error |-> Str(<<"M", "i", "s", "s", "i", "n", "g", " ", "r", "e", "q", "u", "i", "r", "e", "d", " ", "c", "o", "l", "u", "m", "n", "s", ":", " ", "S", "K", "U", " ", "o", "r", " ", "A", "k", "t", "i", "v", "e", "n">>), items |-> Arr(<<>>)])
          ELSE Obj([generated_at |-> Str(toISOString(t)),
                    items |-> Arr(rowItems([i \in 1..(Len(sheet.a) - 1) |-> sheet.a[i + 1].a],
                                           headers))])

-----------------------------------------------------------------------------
(* The functions of catalog.ts applied on their own: probe is the latest   *)
(* application (the function, its argument, what it returned).             *)

(* schemes other than http, https and data, as they open a URL *)
UnsafeSchemes ==
  { <<"j", "a", "v", "a", "s", "c", "r", "i", "p", "t", ":">>,
    <<"J", "a", "v", "a", "S", "c", "r", "i", "p", "t", ":">>,
    <<"v", "b", "s", "c", "r", "i", "p", "t", ":">>,
    <<"f", "t", "p", ":", "/", "/">>,
    <<"f", "i", "l", "e", ":", "/", "/", "/">>,
    <<"b", "l", "o", "b", ":">>,
    <<"m", "a", "i", "l", "t", "o", ":">> }

(* the schemes the check lets through *)
SafeSchemes ==
  { <<"h", "t", "t", "p", ":", "/", "/">>,
    <<"h", "t", "t", "p", "s", ":", "/", "/">>,
    <<"H", "T", "T", "P", "S", ":", "/", "/">>,
    <<"d", "a", "t", "a", ":">> }

(* what else a candidate URL starts with *)
OtherStarts ==
  { <<>>,
    <<"/">>,
    <<"/", "/">>,
    <<".", "/">>,
    <<"h", "t", "t", "p", ":">>,
    <<"h", "t", "t", "p", "s", ":", "/">>,
    <<"1", "a", ":">>,
    <<":">>,
    <<" ">> }

(* what follows the start of a candidate URL *)
UrlRests ==
  { <<>>,
    <<"a", "l", "e", "r", "t", "(", "1", ")">>,
    <<"h", "/", "x", ".", "p", "n", "g">>,
    <<"h", ":", "8", "0", "/", "x", ".", "p", "n", "g">>,
    <<"h", ":", "x", "/", "y">>,
    <<"a", ":", "b">>,
    <<"h", " ", "x", "/", "y">> }

Concat(starts, rests) == {a \o b : a \in starts, b \in rests}

UnsafeUrls == Concat(UnsafeSchemes, UrlRests \ {<<>>})
Urls == Concat(UnsafeSchemes \cup SafeSchemes \cup OtherStarts, UrlRests)

(* raw items that differ in their photoUrl: a string, or not a string *)
rawPhoto(v) == Obj([sku |-> Str(S_A1), photoUrl |-> v])
PhotoValues ==
  {Str(u) : u \in Urls} \cup
  {Str(<<" ">> \o u \o <<" ">>) : u \in UnsafeUrls} \cup
  {Null, Num(0), Bool(FALSE), Arr(<<Str(<<"j", "a", "v", "a", "s", "c", "r", "i", "p", "t", ":", "a", "l", "e", "r", "t", "(", "1", ")">>)>>)}

(* raw items that differ in a numeric field *)
rawNumber(k, v) == [t |-> "obj", f |-> ("sku" :> Str(S_B2)) @@ (k :> v)]
Unparseable ==
  { Str(<<>>), Str(<<"a", "b", "c">>), Str(<<"x", "1">>), Str(<<"-">>),
    Null, Bool(TRUE), Obj(<<>>) }
NumberValues ==
  Unparseable \cup
  { Str(<<"1", "0", ",", "5">>), Str(<<"3">>), Str(<<" ", "7", ".", "2", "5", "a", "b", "c">>), Str(<<"1", ",", "2", ",", "3">>),
    Str(<<".", "5">>), Str(<<",", "5">>), Str(<<"1", "e", "2">>),
    Str(<<"I", "n", "f", "i", "n", "i", "t", "y">>), Str(<<"-", "I", "n", "f", "i", "n", "i", "t", "y">>), Num(-2), Str(<<"-", "0", ",", "5">>), Str(<<"-", "0">>), Num(12), Dec(105, 1), Num(0) }

(* raw items that differ in their text fields and tags *)
rawText(k, v) == [t |-> "obj", f |-> ("sku" :> Str(S_B2)) @@ (k :> v)]
TextFields == {"name", "descriptionShort", "descriptionFull"}
TextValues == {Str(<<>>), Str(<<"r", "e", "a", "l">>), Null, Num(0), Num(42), Bool(FALSE)}
TagValues ==
  { Str(<<>>), Str(<<"a", ",", " ", "b", ",", ",", "c", " ">>), Str(<<" ", ",", " ">>), Str(<<"n", "e", "w">>), Null,
    Arr(<<Str(<<"x">>), Str(<<"y">>)>>) }

RawItems ==
  {itemA1, itemGhost, itemB2, itemNeg, itemInf, Obj(<<>>), Num(5), Str(<<"B", "2">>)} \cup
  {rawPhoto(v) : v \in PhotoValues} \cup
  {rawNumber(k, v) : k \in {"priceRub", "stock"}, v \in NumberValues} \cup
  {rawText(k, v) : k \in TextFields, v \in TextValues} \cup
  {rawText("tags", v) : v \in TagValues}

(* the cells of the SKU column and of the column that tells a row active *)
SheetCells ==
  [sku |-> { Str(<<"P", "1">>), Str(<<" ", "P", "2", " ">>), Str(<<>>), Str(<<" ", " ">>),
             Num(0), Num(7), Bool(FALSE) },
   active |-> { Bool(TRUE), Bool(FALSE), Str(<<"t", "r", "u", "e">>), Str(<<" ", "Y", "e", "s", " ">>),
                Str(<<"D", "A">>), Str(<<"1">>), Num(1), Num(0), Str(<<"n", "o">>), Str(<<>>),
                Str(<<"o", "n">>) }]

(* the header rows: the two required columns in either order with a third  *)
(* column, and rows that lack one of them                                   *)
Headers ==
  [full |-> { <<Str(COLUMNS.SKU), Str(COLUMNS.ACTIVE), Str(COLUMNS.STOCK)>>,
              <<Str(COLUMNS.STOCK), Str(COLUMNS.ACTIVE), Str(COLUMNS.SKU)>> },
   lacking |-> { <<Str(<<>>)>>,
                 <<Str(COLUMNS.SKU), Str(COLUMNS.NAME), Str(COLUMNS.STOCK)>>,
                 <<Str(COLUMNS.NAME), Str(COLUMNS.ACTIVE), Str(COLUMNS.STOCK)>> }]

(* a data row under headers h with the given cells *)
sheetRow(h, sku, active, other) ==
  Arr([i \in 1..Len(h) |->
        IF h[i] = Str(COLUMNS.SKU) THEN sku
        ELSE IF h[i] = Str(COLUMNS.ACTIVE) THEN active
        ELSE other])

(* the sheets: none; headers only; headers and two data rows *)
Sheets ==
  {Null} \cup
  {Arr(<<Arr(h)>>) : h \in Headers.full \cup Headers.lacking} \cup
  {Arr(<<Arr(h), sheetRow(h, Str(<<"P", "1">>), Bool(TRUE), Str(<<"3">>))>>) : h \in Headers.lacking} \cup
  {Arr(<<Arr(h), sheetRow(h, s1, a1, Str(<<"1", "0", ",", "5">>)), sheetRow(h, s2, a2, Num(3))>>) :
     h \in Headers.full, s1 \in SheetCells.sku, a1 \in SheetCells.active,
     s2 \in {Str(<<"Q", "9">>)}, a2 \in {Bool(TRUE), Str(<<"n", "o">>)}}

(* the products normalization makes of the raw items *)
Products == {normalizeProduct(raw) : raw \in {r \in RawItems : ~Throws(r)}}

InitFn ==
  /\ now = 0
  /\ storageMode = "ok"
  /\ store = NoItem
  /\ appsScriptUrl = TRUE
  /\ calls = [p \in Callers |-> Idle]
  /\ app = AppInit
  /\ probe = NoProbe

(* isValidImageUrl(url) is called *)
ApplyIsValidImageUrl(url) ==
  /\ probe' = [fn |-> "isValidImageUrl", arg |-> Str(url),
               ret |-> Bool(isValidImageUrl(url))]
  /\ UNCHANGED <<now, store, storageMode, appsScriptUrl, calls, app>>

(* normalizeProduct(raw) is called with a raw it does not throw on *)
ApplyNormalizeProduct(raw) ==
  /\ ~Throws(raw)
  /\ probe' = [fn |-> "normalizeProduct", arg |-> raw, ret |-> normalizeProduct(raw)]
  /\ UNCHANGED <<now, store, storageMode, appsScriptUrl, calls, app>>

(* isInStock(product) is called *)
ApplyIsInStock(product) ==
  /\ probe' = [fn |-> "isInStock", arg |-> product, ret |-> Bool(isInStock(product))]
  /\ UNCHANGED <<now, store, storageMode, appsScriptUrl, calls, app>>

(* getCtaText(product) is called *)
ApplyGetCtaText(product) ==
  /\ probe' = [fn |-> "getCtaText", arg |-> product, ret |-> Str(getCtaText(product))]
  /\ UNCHANGED <<now, store, storageMode, appsScriptUrl, calls, app>>

(* <ProductCard product={product} /> is rendered *)
RenderProductCard(product) ==
  /\ probe' = [fn |-> "ProductCard", arg |-> product, ret |-> ProductCard(product)]
  /\ UNCHANGED <<now, store, storageMode, appsScriptUrl, calls, app>>

(* doGet(e) runs on a sheet *)
ApplyDoGet(sheet) ==
  /\ probe' = [fn |-> "doGet", arg |-> sheet, ret |-> doGet(sheet, now)]
  /\ UNCHANGED <<now, store, storageMode, appsScriptUrl, calls, app>>

NextFn ==
  \/ \E url \in Urls : ApplyIsValidImageUrl(url)
  \/ \E raw \in RawItems : ApplyNormalizeProduct(raw)
  \/ \E product \in Products : ApplyIsInStock(product)
  \/ \E product \in Products : ApplyGetCtaText(product)
  \/ \E product \in Products : RenderProductCard(product)
  \/ \E sheet \in Sheets : ApplyDoGet(sheet)

SpecFn == InitFn /\ [][NextFn]_vars

-----------------------------------------------------------------------------
(* src/App.tsx: the component, its effect and its catalog section.  The    *)
(* component calls fetchCatalog as caller "a".                             *)

MaxReloadKey == 2

UNAVAILABLE == <<"K", "a", "t", "a", "l", "o", "g", " ", "v", "r", "e", "m", "e", "n", "n", "o", " ",
                 "n", "e", "d", "o", "s", "t", "u", "p", "e", "n">>

(* the then handler leaving error as it is *)
AppThen_noError ==
  /\ app.effect = "pending"
  /\ calls["a"].pc = "done"
  /\ app' = [app EXCEPT !.products = Get(calls["a"].result, "items"), !.effect = "then"]
  /\ UNCHANGED <<probe, now, store, storageMode, appsScriptUrl, calls>>

(* the effect without setError(null) *)
AppEffect_keepError ==
  /\ app.effect = "due"
  /\ fetchCatalogCall("a")
  /\ app' = [app EXCEPT !.loading = TRUE, !.effect = "pending"]

(* the effect of [reloadKey]: setLoading(true), setError(null), and the    *)
(* call of fetchCatalog()                                                  *)
AppEffect ==
  /\ app.effect = "due"
  /\ fetchCatalogCall("a")
  /\ app' = [app EXCEPT !.loading = TRUE, !.error = Null, !.effect = "pending"]

(* the promise is fulfilled: the then handler, or the catch handler when   *)
(* reading res.error throws                                                *)
AppThen ==
  /\ app.effect = "pending"
  /\ calls["a"].pc = "done"
  /\ LET res == calls["a"].result
     IN app' =
          IF res.t \in {"undef", "null"}
          THEN [app EXCEPT !.error = Str(UNAVAILABLE), !.effect = "then"]
          ELSE [app EXCEPT !.error = IF Truthy(Get(res, "error"))
                                     THEN Get(res, "error") ELSE @,
                           !.products = Get(res, "items"),
                           !.effect = "then"]
  /\ UNCHANGED <<probe, now, store, storageMode, appsScriptUrl, calls>>

(* the finally handler: setLoading(false) *)
AppFinally ==
  /\ app.effect = "then"
  /\ app' = [app EXCEPT !.loading = FALSE, !.effect = "settled"]
  /\ UNCHANGED <<probe, now, store, storageMode, appsScriptUrl, calls>>

(* products.length *)
Length(v) == IF v.t = "arr" THEN Num(Len(v.a)) ELSE Undef

(* the catalog views the JSX conditions of the section render *)
Views(a) ==
  {v \in {"loading", "error", "empty", "grid"} :
     \/ v = "loading" /\ a.loading
     \/ v = "error" /\ ~a.loading /\ Truthy(a.error)
     \/ v = "empty" /\ ~a.loading /\ ~Truthy(a.error) /\ Length(a.products) = Num(0)
     \/ v = "grid" /\ ~a.loading /\ ~Truthy(a.error)
          /\ Length(a.products).t = "num" /\ NumGt(Length(a.products), Num(0))}

(* a retry button rendered in every view *)
handleRetry_anytime ==
  /\ app.reloadKey < MaxReloadKey
  /\ app' = [app EXCEPT !.reloadKey = @ + 1, !.effect = "due"]
  /\ UNCHANGED <<probe, now, store, storageMode, appsScriptUrl, calls>>

(* a click on the retry button, which the error view renders *)
handleRetry ==
  /\ "error" \in Views(app)
  /\ app.effect = "settled"
  /\ app.reloadKey < MaxReloadKey
  /\ app' = [app EXCEPT !.reloadKey = @ + 1, !.effect = "due"]
  /\ UNCHANGED <<probe, now, store, storageMode, appsScriptUrl, calls>>

NextApp ==
  \/ AppEffect
  \/ FetchRejects("a")
  \/ \E ok \in BOOLEAN : FetchResponds("a", ok)
  \/ JsonRejects("a")
  \/ \E rawData \in Bodies : JsonResolves("a", rawData)
  \/ AppThen
  \/ AppFinally
  \/ handleRetry
  \/ \E t \in Instants : Tick(t)

SpecApp == Init /\ [][NextApp]_vars

(* the component over any content of the storage item *)
SpecAppAny == InitAny /\ [][NextApp]_vars

-----------------------------------------------------------------------------
(* What the claims speak of *)

Made(p) == calls[p].pc # "idle"
Done(p) == calls[p].pc = "done"

(* st holds a cache entry: an object with a cachedAt in whole milliseconds *)
IsEntry(st) ==
  /\ st.k = "json"
  /\ st.v.t = "obj"
  /\ IsFinite(Get(st.v, "cachedAt"))
  /\ Get(st.v, "cachedAt").e = 0

Age(st, t) == t - st.v.f.cachedAt.m
Fresh(st, t) == IsEntry(st) /\ Age(st, t) <= CACHE_TTL_MS
Expired(st, t) == IsEntry(st) /\ Age(st, t) > CACHE_TTL_MS

(* the request of p's call failed: it was rejected or answered with a status *)
TransportFailed(p) == Done(p) /\ calls[p].net \in {"rejected", "status"}

HasField(v, k) == v.t = "obj" /\ k \in DOMAIN v.f
Items(v) == Get(v, "items")

(* C1: every call that returns, returns a snapshot: an object with a string *)
(* generated_at and a list of items, the list empty whenever error is set.  *)
C1_AlwaysSnapshot ==
  \A p \in Callers :
    Done(p) =>
      /\ calls[p].result.t = "obj"
      /\ Get(calls[p].result, "generated_at").t = "str"
      /\ Items(calls[p].result).t = "arr"
      /\ (HasField(calls[p].result, "error") => Items(calls[p].result) = Arr(<<>>))

(* C2: a call made while the item holds an entry of age at most the TTL     *)
(* returns that entry's data at once, with no request and no storage write. *)
C2_CacheHit ==
  \A p \in Callers :
    (Made(p) /\ Fresh(calls[p].seen, calls[p].t0)) =>
      /\ Done(p)
      /\ calls[p].result = calls[p].seen.v.f.data
      /\ calls[p].reqs = 0
      /\ calls[p].net = "none"
      /\ calls[p].setItems = 0
      /\ calls[p].tDone = calls[p].t0
      /\ calls[p].kept = calls[p].seen

C2_Witness ==
  \E p \in Callers :
    /\ Done(p)
    /\ Fresh(calls[p].seen, calls[p].t0)
    /\ Age(calls[p].seen, calls[p].t0) = CACHE_TTL_MS
    /\ calls[p].result = calls[p].seen.v.f.data

(* C3: a call made while the item holds an entry older than the TTL goes    *)
(* the way of a miss: one request when the endpoint is configured, the      *)
(* configuration error when it is not; the cache read removes the entry.    *)
C3_Expiry ==
  \A p \in Callers :
    (Made(p) /\ Expired(calls[p].seen, calls[p].t0)) =>
      /\ calls[p].kept = NoItem
      /\ appsScriptUrl => (calls[p].reqs = 1 /\ calls[p].net # "none")
      /\ ~appsScriptUrl =>
           /\ Done(p)
           /\ Get(calls[p].result, "error") = Str(NOT_CONFIGURED)
           /\ Items(calls[p].result) = Arr(<<>>)

C3_Witness ==
  \E p \in Callers :
    /\ Made(p)
    /\ Expired(calls[p].seen, calls[p].t0)
    /\ Age(calls[p].seen, calls[p].t0) = CACHE_TTL_MS + 1
    /\ appsScriptUrl
    /\ calls[p].reqs = 1

(* C4: when a call has fetched and stored a snapshot, and another call is   *)
(* made no later than one TTL after it while the item still holds what was  *)
(* stored, the second returns what the first returned and the two issued    *)
(* one request.                                                             *)
C4_Idempotent ==
  \A p, q \in Callers :
    ( /\ p # q
      /\ Done(p)
      /\ Done(q)
      /\ storageMode = "ok"
      /\ calls[p].net = "ok"
      /\ calls[p].setItems = 1
      /\ ~HasField(calls[p].result, "error")
      /\ calls[q].t0 >= calls[p].tDone
      /\ calls[q].t0 - calls[p].tDone <= CACHE_TTL_MS
      /\ calls[q].seen = calls[p].post ) =>
      /\ calls[q].result = calls[p].result
      /\ calls[p].reqs + calls[q].reqs = 1

(* C5: a call whose request was rejected or answered with a non-success     *)
(* status returns no items, the fixed message and the time of its return,   *)
(* after one request and with the storage item as it was.                   *)
C5_TransportFailure ==
  \A p \in Callers :
    TransportFailed(p) =>
      /\ Items(calls[p].result) = Arr(<<>>)
      /\ Get(calls[p].result, "error") = Str(LOAD_FAILED)
      /\ Len(LOAD_FAILED) > 0
      /\ Get(calls[p].result, "generated_at") = Str(toISOString(calls[p].tDone))
      /\ calls[p].reqs = 1
      /\ calls[p].setItems = 0
      /\ calls[p].post = calls[p].pre

C5_Witness ==
  \E p, q \in Callers :
    /\ TransportFailed(p)
    /\ calls[p].net = "status"
    /\ calls[p].tDone > calls[p].t0
    /\ TransportFailed(q)
    /\ calls[q].net = "rejected"

(* C6 as claimed: a call that ends in a transport failure leaves an entry  *)
(* that an earlier call stored as it was, stale or not.                    *)
C6_Untouched ==
  \A p \in Callers :
    (TransportFailed(p) /\ IsEntry(calls[p].seen)) =>
      /\ calls[p].kept = calls[p].seen
      /\ calls[p].post = calls[p].pre

(* C6 as amended: a call that ends in a transport failure stores nothing;  *)
(* the step that returns leaves the item as it was, and the cache read of  *)
(* the call changes it in one case only: an entry past the TTL is removed. *)
C6_Isolation ==
  \A p \in Callers :
    TransportFailed(p) =>
      /\ calls[p].setItems = 0
      /\ calls[p].post = calls[p].pre
      /\ \/ calls[p].kept = calls[p].seen
         \/ Expired(calls[p].seen, calls[p].t0) /\ calls[p].kept = NoItem

C6_Witness ==
  \E p, q \in Callers :
    /\ TransportFailed(p)
    /\ Expired(calls[p].seen, calls[p].t0)
    /\ calls[p].kept = NoItem
    /\ TransportFailed(q)
    /\ IsEntry(calls[q].pre)
    /\ calls[q].post = calls[q].pre

(* C7: with no endpoint configured, a call that finds no entry within the  *)
(* TTL returns at once no items, the fixed message and the current time,   *)
(* without a request and without storing anything.                         *)
C7_NotConfigured ==
  \A p \in Callers :
    (Made(p) /\ ~appsScriptUrl /\ ~Fresh(calls[p].seen, calls[p].t0)) =>
      /\ Done(p)
      /\ Items(calls[p].result) = Arr(<<>>)
      /\ Get(calls[p].result, "error") = Str(NOT_CONFIGURED)
      /\ Len(NOT_CONFIGURED) > 0
      /\ Get(calls[p].result, "generated_at") = Str(toISOString(calls[p].tDone))
      /\ calls[p].tDone = calls[p].t0
      /\ calls[p].reqs = 0
      /\ calls[p].net = "none"
      /\ calls[p].setItems = 0
      /\ \/ calls[p].post = calls[p].pre
         \/ Expired(calls[p].seen, calls[p].t0) /\ calls[p].post = NoItem

C7_Witness ==
  \E p, q \in Callers :
    /\ Done(p)
    /\ ~appsScriptUrl
    /\ Expired(calls[p].seen, calls[p].t0)
    /\ Done(q)
    /\ calls[q].seen = NoItem
    /\ Get(calls[q].result, "error") = Str(NOT_CONFIGURED)

(* p's call received a JSON body that is an object *)
GotObject(p) ==
  Done(p) /\ calls[p].body.k = "json" /\ calls[p].body.v.t = "obj"

(* C8: a call whose parsed body carries an error field returns that field  *)
(* as its error, with no items and without storing anything.               *)
C8_UpstreamError ==
  \A p \in Callers :
    (GotObject(p) /\ HasField(calls[p].body.v, "error")) =>
      /\ Get(calls[p].result, "error") = Get(calls[p].body.v, "error")
      /\ Items(calls[p].result) = Arr(<<>>)
      /\ calls[p].setItems = 0

(* the raw item's SKU is there after string coercion and trimming *)
HasSku(raw) == trim(String(Or(Get(raw, "sku"), Str(<<>>)))) # <<>>

(* C9: the items a call returns for a body without an error are as many as *)
(* the raw items that have a SKU, and none of them has an empty SKU.       *)
C9_DropEmptySku ==
  \A p \in Callers :
    ( /\ GotObject(p)
      /\ ~HasField(calls[p].body.v, "error")
      /\ Items(calls[p].body.v).t = "arr"
      /\ ~HasField(calls[p].result, "error") ) =>
      LET raws == Items(calls[p].body.v).a
          items == Items(calls[p].result).a
      IN /\ Len(items) = Cardinality({i \in 1..Len(raws) : HasSku(raws[i])})
         /\ \A i \in 1..Len(items) : trim(Get(items[i], "sku").s) # <<>>

(* C10: every item a call returns after normalizing a body has a price and *)
(* a stock that are numbers not below zero.                                *)
C10_NonNegative ==
  \A p \in Callers :
    (GotObject(p) /\ ~HasField(calls[p].result, "error")) =>
      \A i \in 1..Len(Items(calls[p].result).a) :
        \A k \in {"priceRub", "stock"} :
          LET v == Get(Items(calls[p].result).a[i], k)
          IN v.t = "num" /\ v # NaN /\ ~NumGt(Num(0), v)

(* C11: a call that received an object without an upstream error and with  *)
(* a list of items returns no error, and every raw item that has a SKU is  *)
(* among the items it returns, whatever the other elements of the list.    *)
C11_Totality ==
  \A p \in Callers :
    ( /\ GotObject(p)
      /\ ~Truthy(Get(calls[p].body.v, "error"))
      /\ Items(calls[p].body.v).t = "arr" ) =>
      LET raws == Items(calls[p].body.v).a
          items == Items(calls[p].result)
      IN /\ ~HasField(calls[p].result, "error")
         /\ items.t = "arr"
         /\ \A i \in 1..Len(raws) :
              HasSku(raws[i]) =>
                \E j \in 1..Len(items.a) :
                  Get(items.a[j], "sku") = Str(String(Get(raws[i], "sku")))

(* normalizeProduct was applied to a raw object *)
Normalized == probe.fn = "normalizeProduct" /\ probe.arg.t = "obj"

(* v is missing, empty, or one of the URLs with a scheme that is not let   *)
(* through, with or without white space around it                           *)
UnsafePhoto(v) ==
  \/ v \in {Undef, Null, Str(<<>>)}
  \/ v.t = "str" /\ trim(v.s) \in UnsafeUrls

(* C12: a raw photoUrl that is missing, empty or an absolute URL with a    *)
(* scheme other than http, https and data is normalized to the placeholder *)
(* and never kept.                                                          *)
C12_UnsafeUrl ==
  (Normalized /\ UnsafePhoto(Get(probe.arg, "photoUrl"))) =>
    /\ Get(probe.ret, "photoUrl") = Str(PLACEHOLDER_IMAGE)
    /\ Get(probe.ret, "photoUrl") # Get(probe.arg, "photoUrl")

C12_Witness ==
  /\ Normalized
  /\ Get(probe.arg, "photoUrl") = Str(<<"j", "a", "v", "a", "s", "c", "r", "i", "p", "t", ":", "a", "l", "e", "r", "t", "(", "1", ")">>)
  /\ Get(probe.ret, "photoUrl") = Str(PLACEHOLDER_IMAGE)

(* C13: isValidImageUrl(url) is true exactly when url is not empty and it  *)
(* parses as a URL with the scheme http, https or data, or holds no colon, *)
(* or begins with a slash.                                                  *)
C13_ValidExactly ==
  probe.fn = "isValidImageUrl" =>
    LET u == probe.arg.s
        parsed == URLparse(u)
    IN probe.ret =
         Bool(/\ u # <<>>
              /\ \/ parsed.ok /\ parsed.protocol \in
                      {<<"h", "t", "t", "p", ":">>, <<"h", "t", "t", "p", "s", ":">>, <<"d", "a", "t", "a", ":">>}
                 \/ \A i \in 1..Len(u) : u[i] # ":"
                 \/ u[1] = "/")

C13_Witness ==
  /\ probe.fn = "isValidImageUrl"
  /\ probe.arg = Str(<<"/", "a", ":", "b">>)
  /\ probe.ret = Bool(TRUE)

(* C14: the raw item {sku: "A1", priceRub: "10,5", stock: "3"} normalizes  *)
(* to price 10.5, stock 3, no tags and the placeholder image; a missing    *)
(* text field becomes the empty string, missing tags the empty list, and a *)
(* numeric field is a number, 0 when it is missing or does not parse.      *)
C14_SafeDefaults ==
  Normalized =>
    /\ probe.arg = itemA1 =>
         /\ Get(probe.ret, "priceRub") = Dec(105, 1)
         /\ Get(probe.ret, "stock") = Num(3)
         /\ Get(probe.ret, "tags") = Arr(<<>>)
         /\ Get(probe.ret, "photoUrl") = Str(PLACEHOLDER_IMAGE)
    /\ \A k \in TextFields \cup {"sku"} :
         /\ Get(probe.ret, k).t = "str"
         /\ ~HasField(probe.arg, k) => Get(probe.ret, k) = Str(<<>>)
    /\ ~HasField(probe.arg, "tags") => Get(probe.ret, "tags") = Arr(<<>>)
    /\ \A k \in {"priceRub", "stock"} :
         /\ Get(probe.ret, k).t = "num"
         /\ Get(probe.ret, k) # NaN
         /\ (~HasField(probe.arg, k) \/ Get(probe.arg, k) \in Unparseable) =>
              Get(probe.ret, k) = Num(0)

C14_Witness ==
  /\ Normalized
  /\ probe.arg = itemA1
  /\ Get(probe.ret, "priceRub") = Dec(105, 1)
  /\ Get(probe.ret, "stock") = Num(3)

(* what a call returns when its cache read finds nothing: the value of the *)
(* path its configuration and its network outcome select                   *)
OnMiss(p) ==
  IF ~appsScriptUrl THEN configError(calls[p].t0)
  ELSE IF calls[p].net \in {"rejected", "status"} \/ calls[p].body = Garbage
  THEN loadError(calls[p].tDone)
  ELSE onBody(calls[p].body.v, calls[p].tDone).result

(* C15: where every access to the storage throws, the item stays empty,    *)
(* every call returns what a miss returns for its network outcome, after   *)
(* one request when the endpoint is configured and none when it is not;    *)
(* where only writes throw, a call that tried to store its result returns  *)
(* that result and leaves the item as it was.                              *)
C15_StorageErrors ==
  \A p \in Callers :
    /\ storageMode = "denied" =>
         /\ store = NoItem
         /\ Made(p) => calls[p].reqs = (IF appsScriptUrl THEN 1 ELSE 0)
         /\ Done(p) => calls[p].result = OnMiss(p)
    /\ (storageMode # "ok" /\ Done(p) /\ calls[p].setItems = 1) =>
         /\ calls[p].result = onBody(calls[p].body.v, calls[p].tDone).result
         /\ ~HasField(calls[p].result, "error")
         /\ calls[p].post = calls[p].pre

C15_Witness ==
  \E p \in Callers :
    /\ storageMode = "denied"
    /\ Done(p)
    /\ calls[p].setItems = 1
    /\ Items(calls[p].result).t = "arr"
    /\ Len(Items(calls[p].result).a) > 0
    /\ store = NoItem

(* C16: a call issues one request when the endpoint is configured and its  *)
(* cache read finds no entry within the TTL, and none otherwise; a call     *)
(* that has failed still counts one.                                        *)
C16_OneRequest ==
  \A p \in Callers :
    Made(p) =>
      /\ calls[p].reqs \in {0, 1}
      /\ calls[p].reqs = 1 <=> (appsScriptUrl /\ ~Fresh(calls[p].seen, calls[p].t0))
      /\ calls[p].reqs = 0 <=> calls[p].net = "none"

C16_Witness ==
  \E p, q \in Callers :
    /\ TransportFailed(p)
    /\ calls[p].reqs = 1
    /\ Done(q)
    /\ Fresh(calls[q].seen, calls[q].t0)
    /\ calls[q].reqs = 0

(* the calls of removeItem by p's cache read: one when it took the entry   *)
(* away, none otherwise                                                    *)
Removes(p) == IF calls[p].kept # calls[p].seen THEN 1 ELSE 0

(* C17: a call writes to the storage at most once, a removal counted as a  *)
(* write.                                                                  *)
C17_OneWrite ==
  \A p \in Callers :
    Made(p) => Removes(p) + calls[p].setItems <= 1

(* C18: a call whose cache read finds text that does not parse, or an      *)
(* entry past the TTL, leaves the item without it: the read removes it.    *)
C18_ProactiveRemoval ==
  \A p \in Callers :
    (Done(p) /\ (calls[p].seen = Garbage \/ Expired(calls[p].seen, calls[p].t0))) =>
      /\ calls[p].kept = NoItem
      /\ calls[p].post # calls[p].seen

(* C19: no two items of a snapshot a call returns have the same sku.       *)
C19_UniqueSku ==
  \A p \in Callers :
    (Done(p) /\ Items(calls[p].result).t = "arr") =>
      LET items == Items(calls[p].result).a
      IN \A i, j \in 1..Len(items) :
           i # j => Get(items[i], "sku") # Get(items[j], "sku")

(* C20: the section renders one view at every moment; once the effect has *)
(* settled it is the error view when the result carries an error, the      *)
(* empty view when it carries none and no items, the grid when it carries  *)
(* none and some items.                                                    *)
C20_OneView ==
  /\ Cardinality(Views(app)) = 1
  /\ app.effect \in {"due", "pending", "then"} /\ app.reloadKey = 0 =>
       Views(app) = {"loading"}
  /\ app.effect = "settled" =>
       LET res == calls["a"].result
       IN Views(app) =
            IF Truthy(Get(res, "error")) THEN {"error"}
            ELSE IF Items(res) = Arr(<<>>) THEN {"empty"}
            ELSE {"grid"}

C20_Witness ==
  /\ app.effect = "settled"
  /\ app.reloadKey = 1
  /\ Views(app) = {"grid"}
  /\ Len(app.products.a) = 2

(* C21: a call that returned an error stored nothing, and the call made    *)
(* next, however soon, on the item as it left it and with no entry within  *)
(* the TTL there, issues a request when the endpoint is configured and     *)
(* does not return from the cache.                                         *)
C21_RetryReachesNetwork ==
  \A p, q \in Callers :
    (Done(p) /\ HasField(calls[p].result, "error")) =>
      /\ calls[p].setItems = 0
      /\ calls[p].post \in {calls[p].pre, NoItem}
      /\ ( /\ p # q
           /\ Made(q)
           /\ calls[q].t0 >= calls[p].tDone
           /\ calls[q].seen = calls[p].post
           /\ ~Fresh(calls[p].post, calls[q].t0) ) =>
           /\ calls[q].kept = NoItem
           /\ appsScriptUrl => (calls[q].reqs = 1 /\ calls[q].net # "none")
           /\ ~appsScriptUrl => calls[q].result = configError(calls[q].t0)

C21_Witness ==
  \E p, q \in Callers :
    /\ p # q
    /\ Done(p)
    /\ Get(calls[p].result, "error") = Str(SHEET_NOT_FOUND)
    /\ Made(q)
    /\ calls[q].t0 = calls[p].tDone
    /\ calls[q].seen = calls[p].post
    /\ calls[q].reqs = 1

(* C22: a call moves forward through its stages only (pc goes from idle or *)
(* done to done or awaitFetch, from awaitFetch to done or awaitJson, from  *)
(* awaitJson to done), a call that has not returned is waiting for its     *)
(* request or for the body of the response, and where these always settle  *)
(* every call returns.                                                     *)
C22_Terminates ==
  /\ [][\A p \in Callers :
          calls'[p].pc # calls[p].pc =>
            \/ calls[p].pc = "idle" /\ calls'[p].pc \in {"done", "awaitFetch"}
            \/ calls[p].pc = "awaitFetch" /\ calls'[p].pc \in {"done", "awaitJson"}
            \/ calls[p].pc = "awaitJson" /\ calls'[p].pc = "done"
            \/ calls[p].pc = "done" /\ calls'[p].pc = "awaitFetch"]_vars
  /\ [](\A p \in Callers :
         (Made(p) /\ ~Done(p)) =>
           /\ calls[p].pc \in {"awaitFetch", "awaitJson"}
           /\ calls[p].net \in {"pending", "ok"}
           /\ calls[p].reqs = 1)
  /\ \A p \in Callers : (Made(p) /\ ~Done(p)) ~> Done(p)

C22_Witness ==
  \E p \in Callers :
    /\ Done(p)
    /\ calls[p].reqs = 1
    /\ calls[p].body.k = "json"
    /\ calls[p].setItems = 1
    /\ calls[p].post # calls[p].pre

(* C23: isInStock is true exactly for a stock above zero; getCtaText gives *)
(* the price label exactly then and the Telegram label otherwise; the card *)
(* shows the out-of-stock badge exactly when the stock is not above zero.  *)
C23_StockCta ==
  LET stock == Get(probe.arg, "stock")
      StockPositive == stock.t = "num" /\ stock.k # "nan" /\ stock.m > 0
  IN /\ probe.fn = "isInStock" => probe.ret = Bool(StockPositive)
     /\ probe.fn = "getCtaText" =>
          probe.ret = IF StockPositive
                      THEN Str(<<"P", "o", "l", "u", "c", "h", "i", "t", "'", " ", "p", "r", "a", "j", "s">>)
                      ELSE Str(<<"U", "t", "o", "c", "h", "n", "i", "t", "'", " ", "v", " ", "T", "e", "l", "e", "g", "r", "a", "m">>)
     /\ probe.fn = "ProductCard" =>
          /\ probe.ret.badge = ~StockPositive
          /\ probe.ret.ctaText = getCtaText(probe.arg)

C23_Witness ==
  /\ probe.fn = "ProductCard"
  /\ Get(probe.arg, "stock") = Num(0)
  /\ probe.ret.badge
  /\ probe.ret.ctaText = <<"U", "t", "o", "c", "h", "n", "i", "t", "'", " ", "v", " ", "T", "e", "l", "e", "g", "r", "a", "m">>

(* doGet ran on a sheet that exists and has both required columns *)
ServedSheet ==
  /\ probe.fn = "doGet"
  /\ probe.arg # Null
  /\ \E i, j \in 1..Len(probe.arg.a[1].a) :
       /\ probe.arg.a[1].a[i] = Str(COLUMNS.SKU)
       /\ probe.arg.a[1].a[j] = Str(COLUMNS.ACTIVE)

(* the cell of a data row under the header name *)
CellOf(row, name) ==
  LET h == probe.arg.a[1].a
  IN row.a[CHOOSE i \in 1..Len(h) : h[i] = Str(name)]

(* the cell tells the row active: true, or a text that reads so *)
ReadsActive(v) ==
  \/ v = Bool(TRUE)
  \/ trim(toLowerCase(String(v))) \in {<<"t", "r", "u", "e">>, <<"d", "a">>, <<"y", "e", "s">>, <<"1">>}

(* the SKUs of the items of the payload, in order *)
ServedSkus ==
  [i \in 1..Len(Items(probe.ret).a) |-> Get(Items(probe.ret).a[i], "sku").s]

(* C24 as claimed: a sheet that is missing or lacks a required column      *)
(* gives an error and no items; otherwise the items of doGet are the data  *)
(* rows with a SKU that is not empty once written out and trimmed and an   *)
(* active cell that reads active, in order.                                *)
C24_ActiveRows ==
  /\ (probe.fn = "doGet" /\ ~ServedSheet) =>
       /\ Truthy(Get(probe.ret, "error"))
       /\ Items(probe.ret) = Arr(<<>>)
  /\ ServedSheet =>
       LET kept == SelectSeq(Tail(probe.arg.a),
                             LAMBDA r : /\ trim(String(CellOf(r, COLUMNS.SKU))) # <<>>
                                        /\ ReadsActive(CellOf(r, COLUMNS.ACTIVE)))
       IN ServedSkus = [i \in 1..Len(kept) |-> trim(String(CellOf(kept[i], COLUMNS.SKU)))]

(* C24 as amended: a sheet that is missing or lacks a required column      *)
(* gives an error and no items; otherwise the payload has no error field   *)
(* and its items are the data rows with a SKU cell that is truthy and not  *)
(* empty once trimmed and an active cell that reads active, in order.      *)
C24_ActiveTruthyRows ==
  /\ (probe.fn = "doGet" /\ ~ServedSheet) =>
       /\ HasField(probe.ret, "error")
       /\ Truthy(Get(probe.ret, "error"))
       /\ Items(probe.ret) = Arr(<<>>)
  /\ ServedSheet =>
       /\ ~HasField(probe.ret, "error")
       /\ LET kept == SelectSeq(Tail(probe.arg.a),
                                LAMBDA r : /\ Truthy(CellOf(r, COLUMNS.SKU))
                                           /\ trim(String(CellOf(r, COLUMNS.SKU))) # <<>>
                                           /\ ReadsActive(CellOf(r, COLUMNS.ACTIVE)))
          IN ServedSkus = [i \in 1..Len(kept) |-> trim(String(CellOf(kept[i], COLUMNS.SKU)))]

C24_Witness ==
  /\ ServedSheet
  /\ Len(probe.arg.a) = 3
  /\ CellOf(probe.arg.a[2], COLUMNS.SKU) = Num(0)
  /\ CellOf(probe.arg.a[2], COLUMNS.ACTIVE) = Str(<<" ", "Y", "e", "s", " ">>)
  /\ CellOf(probe.arg.a[3], COLUMNS.ACTIVE) = Bool(TRUE)
  /\ ServedSkus = <<<<"Q", "9">>>>

(* C25: calls that found no entry within the TTL each issue a request of   *)
(* their own and return what their own body yields; once two calls have    *)
(* both returned after writing the cache, q's write on top of p's, the     *)
(* item holds the result of the later write under the time of that write.  *)
C25_LastWriteWins ==
  \A p, q \in Callers :
    /\ (Made(p) /\ appsScriptUrl /\ ~Fresh(calls[p].seen, calls[p].t0)) =>
         /\ calls[p].reqs = 1
         /\ (Done(p) /\ calls[p].body.k = "json") =>
              calls[p].result = onBody(calls[p].body.v, calls[p].tDone).result
    /\ (/\ p # q
        /\ storageMode = "ok"
        /\ Done(p) /\ calls[p].setItems = 1
        /\ Done(q) /\ calls[q].setItems = 1
        /\ calls[q].pre = calls[p].post) =>
         /\ store = calls[q].post
         /\ store.k = "json"
         /\ Get(store.v, "data") = Jsonify(calls[q].result)
         /\ Get(store.v, "cachedAt") = Num(calls[q].tDone)

C25_Witness ==
  \E p, q \in Callers :
    /\ p # q
    /\ storageMode = "ok"
    /\ Done(p) /\ calls[p].setItems = 1
    /\ Done(q) /\ calls[q].setItems = 1
    /\ calls[q].pre = calls[p].post
    /\ calls[p].seen = NoItem
    /\ calls[q].seen = NoItem
    /\ calls[p].result # calls[q].result
    /\ calls[q].tDone > calls[p].tDone
    /\ calls[q].t0 < calls[p].tDone
    /\ Get(store.v, "data") = calls[q].result

(* C26: the item is absent or holds an entry without an error, whose items *)
(* all come from normalization of the raw items of the bodies the endpoint *)
(* answers with, as JSON text holds them, and whose cachedAt is not after  *)
(* the clock;                                                              *)
(* a call that has just written it stamped it with the time of its write,  *)
(* and a call that returned an error did not write.                        *)
C26_OnlySuccessCached ==
  /\ \/ store = NoItem
     \/ LET RawsOf(b) ==
              IF Items(b).t = "arr"
              THEN {Items(b).a[i] : i \in 1..Len(Items(b).a)} \ {Null}
              ELSE {}
            StoredProducts ==
              {Jsonify(normalizeProduct(r)) : r \in UNION {RawsOf(b) : b \in Bodies}}
        IN
        /\ store.k = "json"
        /\ Get(store.v, "data").t = "obj"
        /\ ~HasField(Get(store.v, "data"), "error")
        /\ Items(Get(store.v, "data")).t = "arr"
        /\ \A i \in 1..Len(Items(Get(store.v, "data")).a) :
             Items(Get(store.v, "data")).a[i] \in StoredProducts
        /\ IsEntry(store)
        /\ Age(store, now) >= 0
  /\ \A p \in Callers :
       /\ (Done(p) /\ calls[p].setItems = 1 /\ storageMode = "ok") =>
            Get(calls[p].post.v, "cachedAt") = Num(calls[p].tDone)
       /\ (Done(p) /\ HasField(calls[p].result, "error")) => calls[p].setItems = 0

C26_Witness ==
  \E p \in Callers :
    /\ Done(p)
    /\ HasField(calls[p].result, "error")
    /\ calls[p].tDone > 1
    /\ store.k = "json"
    /\ Get(store.v, "cachedAt") = Num(1)
    /\ Len(Items(Get(store.v, "data")).a) = 2

(* C27: a call that received an object without an error field returns no  *)
(* error, the generated_at of the body when it has one and the time of its *)
(* return otherwise, and the normalized items of the body in their order,  *)
(* none when the body has no list of items; it stores what it returns.     *)
C27_SuccessShape ==
  \A p \in Callers :
    (GotObject(p) /\ ~HasField(calls[p].body.v, "error")) =>
      LET body == calls[p].body.v
          result == calls[p].result
      IN /\ ~HasField(result, "error")
         /\ Get(result, "generated_at") =
              (IF HasField(body, "generated_at") THEN Get(body, "generated_at")
               ELSE Str(toISOString(calls[p].tDone)))
         /\ Items(result).t = "arr"
         /\ Len(Items(result).a) <= (IF Items(body).t = "arr" THEN Len(Items(body).a) ELSE 0)
         /\ \A i \in 1..Len(Items(result).a) :
              Get(Items(result).a[i], "sku") =
                Str(String(Or(Get(Items(body).a[i], "sku"), Str(<<>>))))
         /\ calls[p].setItems = 1

(* C28: a call returns from the cache (at once, and not the configuration  *)
(* error) only an entry with a numeric cachedAt of an age between 0 and    *)
(* the TTL.                                                                *)
C28_ServedWithinTtl ==
  \A p \in Callers :
    (/\ Done(p)
     /\ calls[p].net = "none"
     /\ calls[p].result # configError(calls[p].t0)) =>
      /\ IsEntry(calls[p].seen)
      /\ Age(calls[p].seen, calls[p].t0) >= 0
      /\ Age(calls[p].seen, calls[p].t0) <= CACHE_TTL_MS

(* C29: the component has at most one call of fetchCatalog in flight: when *)
(* its effect is due, and while the retry button is rendered, no call is   *)
(* in flight and loading is false or it is the mount; the effect becomes   *)
(* due again only by a click on the retry button, which the error view     *)
(* renders while loading is false; and a result is applied only by the     *)
(* effect that made the call.                                              *)
C29_OneInFlight ==
  /\ [](/\ app.effect = "due" => calls["a"].pc \in {"idle", "done"}
        /\ calls["a"].pc \notin {"idle", "done"} => app.effect = "pending" /\ app.loading
        /\ "error" \in Views(app) => ~app.loading /\ calls["a"].pc \in {"idle", "done"})
  /\ [][/\ (app'.effect = "due" /\ app' # app) =>
             /\ "error" \in Views(app)
             /\ ~app.loading
             /\ app'.reloadKey = app.reloadKey + 1
        /\ calls'["a"].t0 # calls["a"].t0 \/ ((calls'["a"].pc \notin {"idle", "done"}) /\ calls["a"].pc \in {"idle", "done"}) =>
             app.effect = "due" /\ app'.effect = "pending"
        /\ (app'.products # app.products \/ app'.error # app.error) =>
             \/ app.effect = "due" /\ app'.effect = "pending"
             \/ app.effect = "pending" /\ app'.effect = "then" /\ calls["a"].pc \in {"idle", "done"}]_vars

C29_Witness ==
  /\ app.reloadKey = 1
  /\ calls["a"].pc = "awaitFetch"
  /\ app.loading
  /\ app.products = Arr(<<>>)

(* C30: loading is true while the fetch of the effect is pending and until *)
(* finally has run, and false once it has; the error is null while the     *)
(* fetch is pending; once settled, the error is the result's error, null   *)
(* when it has none, or the fallback message when the handler threw, and   *)
(* the products are the result's items.                                    *)
C30_LoadingTracksFetch ==
  /\ app.effect \in {"pending", "then"} => app.loading
  /\ app.effect = "pending" => app.error = Null
  /\ app.effect = "settled" =>
       LET res == calls["a"].result
       IN /\ ~app.loading
          /\ IF res.t \in {"undef", "null"}
             THEN app.error = Str(UNAVAILABLE)
             ELSE /\ app.error = IF Truthy(Get(res, "error"))
                                 THEN Get(res, "error") ELSE Null
                  /\ app.products = Get(res, "items")

C30_Witness ==
  /\ app.effect = "settled"
  /\ app.reloadKey = 2
  /\ app.error = Null
  /\ Len(app.products.a) = 1

(* the fallback message is shown *)
C30_WitnessFallback ==
  /\ app.effect = "settled"
  /\ app.error = Str(UNAVAILABLE)

====
